---- MODULE Spec2Model ----
(***************************************************************************)
(* A model of the Mandelbrot renderer of src/src/main.rs: the escape-time  *)
(* evaluator, the pixel-to-point mapping, the sequential render and the    *)
(* banded, parallel generate_field driven by main's loop over a reused     *)
(* pixel buffer.                                                           *)
(*                                                                         *)
(* f64 is modelled as a binary floating-point format of reduced size: a    *)
(* value is an integer count n of units 2^-FracBits whose magnitude has at *)
(* most PrecBits significant bits, and every arithmetic operation returns  *)
(* the exact result rounded to the nearest such value, ties to even, as    *)
(* IEEE 754 does.  Infinities and NaN are outside the modelled range.      *)
(***************************************************************************)
EXTENDS Integers, Sequences, FiniteSets, TLC

VARIABLES
    et,       \* the frame of an escape_time call: c, limit, z, i, pc, result
    mp,       \* the frame of a pixel_to_point call: arguments, pc, result
    pixels,   \* the pixel buffer
    pixels0,  \* the buffer's contents when the current call began
    tasks,    \* the render calls in progress, one per band (or the one direct call)
    gf,       \* the frame of main's loop and its generate_field call
    writes    \* every write so far of the current call: <<task, buffer index>>

vars == <<et, mp, pixels, pixels0, tasks, gf, writes>>

\* ------------------------------------------------------------------ f64

\* Significand width of the modelled float format (f64: 53).
PrecBits == 7
\* Number of fractional bits of the smallest representable step.
FracBits == 8

RECURSIVE Pow2(_)
Pow2(n) == IF n = 0 THEN 1 ELSE 2 * Pow2(n - 1)

Scale == Pow2(FracBits)
TwoP == Pow2(PrecBits)

Abs(x) == IF x < 0 THEN -x ELSE x
Sign(x) == IF x < 0 THEN -1 ELSE 1

\* The spacing of representable values at magnitude a (in units).
RECURSIVE Ulp(_)
Ulp(a) == IF a < TwoP THEN 1 ELSE 2 * Ulp(a \div 2)

\* num/den (den > 0), rounded to the nearest representable value, ties to
\* the even significand.
RoundQ(num, den) ==
    LET a == Abs(num)
        u == Ulp(a \div den)
        d == den * u
        m == a \div d
        r == a - m * d
        up == (2 * r > d) \/ (2 * r = d /\ m % 2 = 1)
    IN  Sign(num) * u * (IF up THEN m + 1 ELSE m)

\* A value is representable when rounding leaves it alone.
Representable(n) == RoundQ(n, 1) = n

FAdd(a, b) == RoundQ(a + b, 1)
FSub(a, b) == RoundQ(a - b, 1)
FMul(a, b) == RoundQ(a * b, Scale)
FDiv(a, b) == RoundQ(Sign(b) * a * Scale, Abs(b))
\* `n as f64`
FromInt(n) == RoundQ(n * Scale, 1)
\* The float a decimal literal num/den denotes.
Lit(num, den) == RoundQ(num * Scale, den)

Complex(re, im) == [re |-> re, im |-> im]
CZero == Complex(0, 0)
CAdd(a, b) == Complex(FAdd(a.re, b.re), FAdd(a.im, b.im))
CMul(a, b) == Complex(FSub(FMul(a.re, b.re), FMul(a.im, b.im)),
                      FAdd(FMul(a.re, b.im), FMul(a.im, b.re)))
norm_sqr(z) == FAdd(FMul(z.re, z.re), FMul(z.im, z.im))

\* ---------------------------------------------------------- escape_time

None == <<"None">>
Some(i) == <<"Some", i>>

\* The literal 4.0 of the escape test.
FourF == Lit(4, 1)

EscapedGe(z) == norm_sqr(z) >= FourF
\* `z.norm_sqr() > 4.0`
Escaped(z) == norm_sqr(z) > FourF

\* `z = z * z + c`
Update(z, c) == CAdd(CMul(z, z), c)

ExhaustedSentinel(limit) == Some(limit)
\* The value returned when the loop runs out of iterations.
Exhausted(limit) == None

FoundNext(i) == Some(i + 1)
\* The value returned when the escape test succeeds in iteration i.
Found(i) == Some(i)

\* The loop's variables before the first iteration.
LoopStart == [z |-> CZero, i |-> 0, returned |-> FALSE, result |-> None]

\* One iteration of `for i in 0..limit`: the update, then the escape test.
LoopStep(c, st) ==
    LET z1 == Update(st.z, c)
    IN  IF Escaped(z1)
        THEN [z |-> z1, i |-> st.i, returned |-> TRUE, result |-> Found(st.i)]
        ELSE [st EXCEPT !.z = z1, !.i = @ + 1]

\* n consecutive iterations from st, stopping at a return (the iterations are
\* split in halves to keep the evaluation shallow).
RECURSIVE LoopRun(_, _, _)
LoopRun(c, st, n) ==
    IF n = 0 \/ st.returned THEN st
    ELSE IF n = 1 THEN LoopStep(c, st)
    ELSE LoopRun(c, LoopRun(c, st, n \div 2), n - (n \div 2))

escape_time(c, limit) ==
    LET st == LoopRun(c, LoopStart, limit)
    IN  IF st.returned THEN st.result ELSE Exhausted(limit)

\* -------------------------------------------------------- pixel_to_point

pixel_to_point_im_added(bounds, pixel, upper_left, lower_right) ==
    LET width == FSub(lower_right.re, upper_left.re)
        height == FSub(upper_left.im, lower_right.im)
    IN  Complex(FAdd(upper_left.re,
                     FDiv(FMul(FromInt(pixel[1]), width), FromInt(bounds[1]))),
                FAdd(upper_left.im,
                     FDiv(FMul(FromInt(pixel[2]), height), FromInt(bounds[2]))))

pixel_to_point(bounds, pixel, upper_left, lower_right) ==
    LET width == FSub(lower_right.re, upper_left.re)
        height == FSub(upper_left.im, lower_right.im)
    IN  Complex(FAdd(upper_left.re,
                     FDiv(FMul(FromInt(pixel[1]), width), FromInt(bounds[1]))),
                FSub(upper_left.im,
                     FDiv(FMul(FromInt(pixel[2]), height), FromInt(bounds[2]))))

\* ------------------------------------------------------------- render

\* The iteration limit render passes to escape_time.
IterationLimit == 255

PixelByteInverted(e) == IF e = None THEN 0 ELSE (255 - e[2]) % 256
\* `None => 0, Some(count) => (count % (128*2)) as u8`
PixelByte(e) == IF e = None THEN 0 ELSE e[2] % 256

\* The plane rectangles and image sizes of the modelled render calls.
Rects == {
    <<Complex(Lit(-1, 1), Lit(1, 1)), Complex(Lit(1, 1), Lit(-1, 1))>>,
    <<Complex(Lit(-116, 100), Lit(29, 100)), Complex(Lit(-114, 100), Lit(275, 1000))>>,
    <<Complex(Lit(-3, 4), Lit(1, 1)), Complex(Lit(1, 5), Lit(-1, 1))>> }

Sizes == {<<3, 2>>, <<2, 2>>, <<2, 3>>}

\* The sub-rectangle generate_field gives band `top`.
BandUpperLeft(size, top, upper_left, lower_right) ==
    pixel_to_point(size, <<0, top>>, upper_left, lower_right)
BandLowerRight(size, top, upper_left, lower_right) ==
    pixel_to_point(size, <<size[1], top + 1>>, upper_left, lower_right)

\* Every point a modelled render call can hand to escape_time.
WholePoints ==
    UNION {{pixel_to_point(b, <<c, r>>, R[1], R[2]) : c \in 0..b[1], r \in 0..b[2]}
             : b \in Sizes, R \in Rects}
BandPoints ==
    UNION {{pixel_to_point(<<b[1], 1>>, <<c, 0>>,
                           BandUpperLeft(b, top, R[1], R[2]),
                           BandLowerRight(b, top, R[1], R[2]))
              : c \in 0..b[1], top \in 0..(b[2] + 1)}
             : b \in Sizes, R \in Rects}

\* escape_time(point, 255), tabulated over those points.
EscapeTable == [c \in WholePoints \cup BandPoints |-> escape_time(c, IterationLimit)]

\* The byte render stores for pixel (column, row).
RenderedByte(bounds, column, row, upper_left, lower_right) ==
    PixelByte(EscapeTable[pixel_to_point(bounds, <<column, row>>,
                                         upper_left, lower_right)])


\* ------------------------------------------------ idle values of the frames

EtIdle == [c |-> CZero, limit |-> 0, z |-> CZero, i |-> 0, updates |-> 0,
           pc |-> "idle", result |-> None]
MpIdle == [bounds |-> <<1, 1>>, pixel |-> <<0, 0>>, upper_left |-> CZero,
           lower_right |-> CZero, pc |-> "idle", result |-> CZero]
GfIdle == [size |-> <<1, 1>>, upper_left |-> CZero, lower_right |-> CZero,
           pc |-> "idle", calls |-> 0]

\* ------------------------------------------------- render, as a task

FirstColumnSkipped(bounds) == 1
\* The first value of `for column in 0 .. bounds.0`.
FirstColumn(bounds) == 0

\* A render call on the sub-slice pixels[start .. start + len - 1] that has
\* not started yet.
RenderCall(start, len, bounds, upper_left, lower_right) ==
    [start |-> start, len |-> len, bounds |-> bounds,
     upper_left |-> upper_left, lower_right |-> lower_right,
     row |-> 0, column |-> FirstColumn(bounds), pc |-> "pending"]

LengthAtLeast(len, bounds) == len >= bounds[1] * bounds[2]
\* `pixels.len() == bounds.0 * bounds.1`
LengthMatches(len, bounds) == len = bounds[1] * bounds[2]


\* `assert!(pixels.len() == bounds.0 * bounds.1)`: enter the loops or panic.
RenderAssert(t) ==
    /\ tasks[t].pc = "pending"
    /\ tasks' = [tasks EXCEPT ![t].pc =
                    IF LengthMatches(tasks[t].len, tasks[t].bounds)
                    THEN "loop" ELSE "panicked"]
    /\ UNCHANGED <<et, mp, pixels, pixels0, gf, writes>>

\* One iteration of the inner loop: compute the point, store the byte at
\* row * bounds.0 + column of the slice (a checked index: out of range, the
\* store panics), and advance.
RenderPixel(t) ==
    LET k == tasks[t]
        index == k.row * k.bounds[1] + k.column
        last == k.column + 1 >= k.bounds[1]
    IN  /\ k.pc = "loop"
        /\ k.row < k.bounds[2]
        /\ IF index < k.len
           THEN /\ pixels' = [pixels EXCEPT ![k.start + index + 1] =
                                 RenderedByte(k.bounds, k.column, k.row,
                                              k.upper_left, k.lower_right)]
                /\ writes' = writes \cup {<<t, k.start + index>>}
                /\ tasks' = [tasks EXCEPT
                                ![t].column = IF last THEN FirstColumn(k.bounds)
                                              ELSE k.column + 1,
                                ![t].row = IF last THEN k.row + 1 ELSE k.row]
           ELSE /\ tasks' = [tasks EXCEPT ![t].pc = "panicked"]
                /\ UNCHANGED <<pixels, writes>>
        /\ UNCHANGED <<et, mp, pixels0, gf>>

\* The outer loop is exhausted: render returns.
RenderReturn(t) ==
    /\ tasks[t].pc = "loop"
    /\ tasks[t].row >= tasks[t].bounds[2]
    /\ tasks' = [tasks EXCEPT ![t].pc = "returned"]
    /\ UNCHANGED <<et, mp, pixels, pixels0, gf, writes>>

\* The whole image as render leaves it in a buffer of length width * height.
RenderImage(bounds, upper_left, lower_right) ==
    [n \in 1..(bounds[1] * bounds[2]) |->
        RenderedByte(bounds, (n - 1) % bounds[1], (n - 1) \div bounds[1],
                     upper_left, lower_right)]

\* Initial buffer contents: what main allocates (0), and a value render never
\* stores (255).
InitBytes == {0, 255}

Buffers(len) == [1..len -> InitBytes]

\* --------------------------------------------- a direct call of render

RenderLens(bounds) ==
    {bounds[1] * bounds[2] - 1, bounds[1] * bounds[2], bounds[1] * bounds[2] + 1}

RenderInit ==
    /\ \E b \in Sizes, R \in Rects :
         \E len \in RenderLens(b) :
            /\ pixels \in Buffers(len)
            /\ tasks = <<RenderCall(0, len, b, R[1], R[2])>>
    /\ pixels0 = pixels
    /\ writes = {}
    /\ et = EtIdle
    /\ mp = MpIdle
    /\ gf = GfIdle

RenderNext == RenderAssert(1) \/ RenderPixel(1) \/ RenderReturn(1)

SpecRender == RenderInit /\ [][RenderNext]_vars

\* C3: render on a buffer whose length is not width * height panics before any
\* write: every byte keeps the value it had before the call.
C3_RenderLengthMismatchWritesNothing ==
    Len(pixels) # tasks[1].bounds[1] * tasks[1].bounds[2] =>
        /\ tasks[1].pc \in {"pending", "panicked"}
        /\ writes = {}
        /\ pixels = pixels0

\* C3 witness: render has panicked on a buffer one byte too long, nothing
\* written.
C3_Witness ==
    /\ tasks[1].pc = "panicked"
    /\ Len(pixels) = tasks[1].bounds[1] * tasks[1].bounds[2] + 1
    /\ pixels = pixels0

\* C5: after render returns on a buffer of length width * height, the byte at
\* row * width + column is 0 when escape_time(pixel_to_point(bounds, (column,
\* row), upper_left, lower_right), 255) is None and i mod 256 when it is
\* Some(i), and every index of the buffer has been written.
C5_RenderPopulatesRowMajor ==
    LET k == tasks[1] IN
    (k.pc = "returned" /\ Len(pixels) = k.bounds[1] * k.bounds[2]) =>
        /\ \A row \in 0..(k.bounds[2] - 1), column \in 0..(k.bounds[1] - 1) :
             LET e == EscapeTable[pixel_to_point(k.bounds, <<column, row>>,
                                                 k.upper_left, k.lower_right)]
                 byte == pixels[row * k.bounds[1] + column + 1]
             IN  /\ e = None => byte = 0
                 /\ \A i \in 0..(IterationLimit - 1) : e = Some(i) => byte = i % 256
        /\ {w[2] : w \in writes} = 0..(Len(pixels) - 1)

\* C5 witness: render has returned on a buffer that began as all 255 and now
\* holds both a bounded pixel (0) and an escaped one.
C5_Witness ==
    /\ tasks[1].pc = "returned"
    /\ \A n \in DOMAIN pixels0 : pixels0[n] = 255
    /\ \E n \in DOMAIN pixels : pixels[n] = 0
    /\ \E n \in DOMAIN pixels : pixels[n] \in 1..254

\* ------------------------------------------- generate_field and main

\* Most generate_field calls main's loop makes in a modelled run.
MaxCalls == 2

Min(a, b) == IF a < b THEN a ELSE b

ChunkSizeHeight(size) == size[2]
\* The chunk length generate_field passes to chunks_mut.
ChunkSize(size) == size[1]

\* `pixels.chunks_mut(size.0).enumerate()` with the closure's band rectangle:
\* chunk i starts at i * size.0 and the last one may be short.
Bands(size, len, upper_left, lower_right) ==
    LET cs == ChunkSize(size)
    IN  [b \in 1..((len + cs - 1) \div cs) |->
            RenderCall((b - 1) * cs, Min(cs, len - (b - 1) * cs), <<size[1], 1>>,
                       BandUpperLeft(size, b - 1, upper_left, lower_right),
                       BandLowerRight(size, b - 1, upper_left, lower_right))]

\* The whole image as the bands of generate_field leave it, band by band.
FieldImage(size, upper_left, lower_right) ==
    [n \in 1..(size[1] * size[2]) |->
        LET top == (n - 1) \div size[1]
        IN  RenderedByte(<<size[1], 1>>, (n - 1) % size[1], 0,
                         BandUpperLeft(size, top, upper_left, lower_right),
                         BandLowerRight(size, top, upper_left, lower_right))]

\* The buffer lengths a caller passes: right, and wrong in each way.
FieldLens(size) ==
    LET n == size[1] * size[2]
    IN  {n, n - 1, n + 1, n - size[1], n + size[1]}

\* The buffers main's loop starts from: filled with one value, or striped.
Fills(len) ==
    {[n \in 1..len |-> v] : v \in InitBytes}
        \cup {[n \in 1..len |-> IF n % 2 = 1 THEN 0 ELSE 255]}

FieldInit ==
    /\ \E size \in Sizes :
         /\ gf = [GfIdle EXCEPT !.size = size]
         /\ \E len \in FieldLens(size) : pixels \in Fills(len)
    /\ pixels0 = pixels
    /\ tasks = <<>>
    /\ writes = {}
    /\ et = EtIdle
    /\ mp = MpIdle

\* One iteration of main's loop: generate_field is called on the reused
\* buffer, which splits it into bands and hands them to the pool.
CallGenerateField ==
    /\ gf.pc = "idle"
    /\ gf.calls < MaxCalls
    /\ \E R \in Rects :
         /\ gf' = [gf EXCEPT !.upper_left = R[1], !.lower_right = R[2],
                             !.pc = "running", !.calls = @ + 1]
         /\ tasks' = Bands(gf.size, Len(pixels), R[1], R[2])
    /\ pixels0' = pixels
    /\ writes' = {}
    /\ UNCHANGED <<et, mp, pixels>>

\* A worker enters the render call of one band's closure.
BandAssert ==
    /\ gf.pc = "running"
    /\ \E t \in DOMAIN tasks : RenderAssert(t)

\* A worker renders one pixel of one band.
BandPixel ==
    /\ gf.pc = "running"
    /\ \E t \in DOMAIN tasks : RenderPixel(t)

\* A worker finishes one band.
BandReturn ==
    /\ gf.pc = "running"
    /\ \E t \in DOMAIN tasks : RenderReturn(t)

\* for_each ends with every band rendered: generate_field returns to main.
GenerateFieldReturn ==
    /\ gf.pc = "running"
    /\ \A t \in DOMAIN tasks : tasks[t].pc = "returned"
    /\ gf' = [gf EXCEPT !.pc = "idle"]
    /\ UNCHANGED <<et, mp, pixels, pixels0, tasks, writes>>

\* A band's panic propagates out of for_each once no band is still running
\* (bands not yet started may be dropped); it unwinds through main.
GenerateFieldPanic ==
    /\ gf.pc = "running"
    /\ \E t \in DOMAIN tasks : tasks[t].pc = "panicked"
    /\ \A t \in DOMAIN tasks : tasks[t].pc # "loop"
    /\ gf' = [gf EXCEPT !.pc = "panicked"]
    /\ UNCHANGED <<et, mp, pixels, pixels0, tasks, writes>>

FieldNext ==
    \/ CallGenerateField
    \/ BandAssert
    \/ BandPixel
    \/ BandReturn
    \/ GenerateFieldReturn
    \/ GenerateFieldPanic

SpecField == FieldInit /\ [][FieldNext]_vars

RightLength == Len(pixels) = gf.size[1] * gf.size[2]
Returned == gf.pc = "idle" /\ gf.calls >= 1

\* C1 as stated: whatever the order in which the bands ran, the buffer
\* generate_field leaves is the one a single render call over the whole image
\* leaves.
C1_Original ==
    (Returned /\ RightLength) =>
        pixels = RenderImage(gf.size, gf.upper_left, gf.lower_right)

\* C2: with a buffer of length width * height there are exactly height bands,
\* band i owns exactly the indexes i*width .. (i+1)*width - 1, every index
\* belongs to exactly one band, and no task writes an index of another band.
C2_BandsPartitionBuffer ==
    (gf.calls >= 1 /\ RightLength) =>
        LET w == gf.size[1]
            h == gf.size[2]
            Owned(t) == tasks[t].start..(tasks[t].start + tasks[t].len - 1)
        IN  /\ Len(tasks) = h
            /\ \A t \in DOMAIN tasks : Owned(t) = ((t - 1) * w)..(t * w - 1)
            /\ \A n \in 0..(Len(pixels) - 1) :
                 Cardinality({t \in DOMAIN tasks : n \in Owned(t)}) = 1
            /\ \A x \in writes : x[2] \in ((x[1] - 1) * w)..(x[1] * w - 1)
            /\ \A x, y \in writes : x[2] = y[2] => x[1] = y[1]

\* C2 witness: two bands are in the middle of their rows at the same time,
\* each having written.
C2_Witness ==
    /\ RightLength
    /\ gf.pc = "running"
    /\ \E t, u \in DOMAIN tasks :
         /\ t # u
         /\ tasks[t].pc = "loop" /\ tasks[t].column > 0
         /\ tasks[u].pc = "loop" /\ tasks[u].column > 0
         /\ \E x, y \in writes : x[1] = t /\ y[1] = u

\* C4 as stated: generate_field on a buffer whose length is not size.0 * size.1
\* aborts without writing any byte and never returns normally.
C4_Original ==
    (gf.calls >= 1 /\ ~RightLength) =>
        /\ writes = {}
        /\ pixels = pixels0
        /\ gf.pc # "idle"

\* C10: after any sequence of generate_field calls on the reused buffer of
\* length width * height, the buffer is what the last call's bounds and
\* rectangle alone determine, whatever the buffer held before.
C10_BufferDependsOnLastCallOnly ==
    (Returned /\ RightLength) =>
        pixels = FieldImage(gf.size, gf.upper_left, gf.lower_right)

\* C10 witness: a second call has returned on a buffer the first call left
\* different from what the second produces.
C10_Witness ==
    /\ Returned
    /\ RightLength
    /\ gf.calls = 2
    /\ pixels0 # pixels
    /\ \E n \in DOMAIN pixels0 : pixels0[n] \notin InitBytes

\* ------------------------------------------------- escape_time, stepwise

\* Largest iteration limit of the stepwise escape_time runs.
MaxLimit == 4

EscCoords == {Lit(-2, 1), Lit(-1, 1), Lit(-3, 4), Lit(0, 1), Lit(1, 16),
              Lit(1, 4), Lit(1, 1), Lit(2, 1), Lit(5, 2)}
EscPoints == {Complex(re, im) : re \in EscCoords, im \in EscCoords}

EscInit ==
    /\ \E c \in EscPoints, limit \in 0..MaxLimit :
          et = [EtIdle EXCEPT !.c = c, !.limit = limit, !.pc = "loop"]
    /\ mp = MpIdle
    /\ pixels = <<>>
    /\ pixels0 = <<>>
    /\ tasks = <<>>
    /\ gf = GfIdle
    /\ writes = {}

\* One iteration of `for i in 0..limit`: the update and the escape test.
EscapeIterate ==
    /\ et.pc = "loop"
    /\ et.i < et.limit
    /\ LET z1 == Update(et.z, et.c)
       IN  et' = IF Escaped(z1)
                 THEN [et EXCEPT !.z = z1, !.updates = @ + 1,
                                 !.pc = "returned", !.result = Found(et.i)]
                 ELSE [et EXCEPT !.z = z1, !.updates = @ + 1, !.i = @ + 1]
    /\ UNCHANGED <<mp, pixels, pixels0, tasks, gf, writes>>

\* The range 0..limit is exhausted: fall out of the loop.
EscapeExhaust ==
    /\ et.pc = "loop"
    /\ et.i >= et.limit
    /\ et' = [et EXCEPT !.pc = "returned", !.result = Exhausted(et.limit)]
    /\ UNCHANGED <<mp, pixels, pixels0, tasks, gf, writes>>

EscNext == EscapeIterate \/ EscapeExhaust

SpecEscape == EscInit /\ [][EscNext]_vars

\* z after k + 1 updates z <- z*z + c from z = 0.
RECURSIVE Orbit(_, _)
Orbit(c, k) ==
    IF k = 0 THEN CAdd(CMul(CZero, CZero), c)
    ELSE LET p == Orbit(c, k - 1) IN CAdd(CMul(p, p), c)

\* k is the least zero-based index at which the updated z has |z|^2 > 4.0.
LeastEscapeIndex(c, k) ==
    /\ \A j \in 0..(k - 1) : ~(norm_sqr(Orbit(c, j)) > FourF)
    /\ norm_sqr(Orbit(c, k)) > FourF

\* C6: escape_time performs at most `limit` updates, and returns Some(i) exactly
\* when i is the least zero-based index below limit at which the updated z has
\* |z|^2 > 4.0 (strictly), None exactly when there is no such index.
C6_EscapeTimeLeastIndex ==
    /\ et.updates <= et.limit
    /\ et.pc = "loop" => et.updates = et.i
    /\ et.pc = "returned" =>
         LET hits == {k \in 0..(et.limit - 1) : LeastEscapeIndex(et.c, k)}
         IN  /\ (et.result = None) <=> (hits = {})
             /\ \A k \in 0..(et.limit - 1) : (et.result = Some(k)) <=> (k \in hits)
             /\ et.result \in {None} \cup {Some(k) : k \in 0..(et.limit - 1)}

\* C6 witness: a run that passed |z|^2 = 4 exactly without escaping and escaped
\* at the next index.
C6_Witness ==
    /\ et.pc = "returned"
    /\ norm_sqr(Orbit(et.c, 0)) = FourF
    /\ et.result = Some(1)

\* |c| > 2 in exact arithmetic.
ExactNormAbove4(c) == c.re * c.re + c.im * c.im > 4 * Scale * Scale

\* C7 as stated: every c with |c| > 2 gives Some(0) for every limit >= 1.
C7_Original ==
    (et.pc = "returned" /\ et.limit >= 1 /\ ExactNormAbove4(et.c))
        => et.result = Some(0)

\* C7 as amended: every c whose squared norm as computed in floating point,
\* c.re*c.re + c.im*c.im with each operation rounded, is > 4.0 gives Some(0)
\* for every limit >= 1.
C7_RoundedNormEscapesAtZero ==
    (et.pc = "returned" /\ et.limit >= 1 /\ norm_sqr(et.c) > FourF)
        => et.result = Some(0)

\* C7 witness: such a point was evaluated and escaped at index 0.
C7_Witness ==
    /\ et.pc = "returned"
    /\ et.limit >= 1
    /\ norm_sqr(et.c) > FourF
    /\ et.result = Some(0)

\* C8: escape_time(0+0i, limit) returns None for every limit, 0 included.
C8_OriginIsBounded ==
    (et.pc = "returned" /\ et.c = CZero) => et.result = None

\* C8 witness: the origin was iterated through a whole nonempty range, z
\* staying at 0.
C8_Witness ==
    /\ et.pc = "returned"
    /\ et.c = CZero
    /\ et.limit >= 1
    /\ et.updates = et.limit
    /\ et.z = CZero

\* The loop and the recursive operator used by render compute the same result.
EscapeOperatorAgrees ==
    et.pc = "returned" => et.result = escape_time(et.c, et.limit)

\* ---------------------------------------------- pixel_to_point, as a call

MapRects == {
    <<Complex(Lit(-1, 1), Lit(1, 1)), Complex(Lit(1, 1), Lit(-1, 1))>>,
    <<Complex(Lit(-116, 100), Lit(29, 100)), Complex(Lit(-114, 100), Lit(275, 1000))>>,
    <<Complex(Lit(-3, 4), Lit(1, 1)), Complex(Lit(1, 5), Lit(-1, 1))>>,
    <<Complex(Lit(-2, 1), Lit(5, 4)), Complex(Lit(1, 2), Lit(-5, 4))>>,
    <<Complex(Lit(-5, 4), Lit(1, 2)), Complex(Lit(1, 10), Lit(1, 10))>> }

MapBounds == {<<1, 1>>, <<2, 3>>, <<3, 2>>, <<100, 100>>}

MapAxis(n) == IF n <= 3 THEN 0..n ELSE {0, n \div 4, (3 * n) \div 4, n}

MapInit ==
    /\ \E b \in MapBounds, r \in MapRects :
          \E col \in MapAxis(b[1]), row \in MapAxis(b[2]) :
             mp = [MpIdle EXCEPT !.bounds = b, !.pixel = <<col, row>>,
                                 !.upper_left = r[1], !.lower_right = r[2],
                                 !.pc = "call"]
    /\ et = EtIdle
    /\ pixels = <<>>
    /\ pixels0 = <<>>
    /\ tasks = <<>>
    /\ gf = GfIdle
    /\ writes = {}

MapCall ==
    /\ mp.pc = "call"
    /\ mp' = [mp EXCEPT !.pc = "returned",
                        !.result = pixel_to_point(mp.bounds, mp.pixel,
                                                  mp.upper_left, mp.lower_right)]
    /\ UNCHANGED <<et, pixels, pixels0, tasks, gf, writes>>

MapNext == MapCall

SpecMap == MapInit /\ [][MapNext]_vars

\* No operation of origin + k * extent / n rounds (sign = 1) or of
\* origin - k * extent / n (sign = -1); extent is the exact difference.
RoundingFree(origin, extent, k, n, sign) ==
    /\ Representable(extent)
    /\ Representable(k * Scale)
    /\ Representable(n * Scale)
    /\ Representable(k * extent)
    /\ (k * extent) % n = 0
    /\ Representable((k * extent) \div n)
    /\ Representable(origin + sign * ((k * extent) \div n))

MapTestCase ==
    /\ mp.bounds = <<100, 100>>
    /\ mp.pixel = <<25, 75>>
    /\ mp.upper_left = Complex(Lit(-1, 1), Lit(1, 1))
    /\ mp.lower_right = Complex(Lit(1, 1), Lit(-1, 1))

\* C9 as stated: pixel (0,0) maps to upper_left, pixel (width, height) maps to
\* lower_right, and the test case maps to (-0.5, -0.5).
C9_Original ==
    mp.pc = "returned" =>
        /\ mp.pixel = <<0, 0>> => mp.result = mp.upper_left
        /\ mp.pixel = mp.bounds => mp.result = mp.lower_right
        /\ MapTestCase => mp.result = Complex(Lit(-1, 2), Lit(-1, 2))

\* C9 as amended: the result is the formula evaluated in floating point; it is
\* the exact value upper_left.re + column*(lower_right.re - upper_left.re)/width,
\* upper_left.im - row*(upper_left.im - lower_right.im)/height whenever no
\* intermediate result is rounded; pixel (0,0) maps to upper_left; the test case
\* maps to (-0.5, -0.5).
C9_MappingFormula ==
    mp.pc = "returned" =>
        LET w == mp.lower_right.re - mp.upper_left.re
            h == mp.upper_left.im - mp.lower_right.im
        IN  /\ RoundingFree(mp.upper_left.re, w, mp.pixel[1], mp.bounds[1], 1)
                 => mp.result.re * mp.bounds[1]
                      = mp.upper_left.re * mp.bounds[1] + mp.pixel[1] * w
            /\ RoundingFree(mp.upper_left.im, h, mp.pixel[2], mp.bounds[2], -1)
                 => mp.result.im * mp.bounds[2]
                      = mp.upper_left.im * mp.bounds[2] - mp.pixel[2] * h
            /\ mp.pixel = <<0, 0>> => mp.result = mp.upper_left
            /\ MapTestCase => mp.result = Complex(Lit(-1, 2), Lit(-1, 2))

\* C9 witness: the test case of the source was mapped.
C9_Witness ==
    /\ mp.pc = "returned"
    /\ MapTestCase
    /\ mp.result = Complex(Lit(-1, 2), Lit(-1, 2))

====
